---------------------------- MODULE Spec2Model ----------------------------
(***************************************************************************)
(* The chat hub of src/app/api/socket/route.ts: a registry of WebSocket    *)
(* connections, a bounded message history, the broadcast fan-out, the      *)
(* presence announcement, and the three listeners of a connection          *)
(* (message, close, error).                                                *)
(*                                                                         *)
(* The runtime is single threaded and no handler awaits, so each handler   *)
(* runs to completion: one action per handler.  A JavaScript string is a   *)
(* sequence of one-character strings; an optional field is <<>> (absent)   *)
(* or <<v>> (present).  A serialised payload is represented by the value   *)
(* it encodes.  The ISO timestamp sentAt of a ChatMessage is not modelled. *)
(***************************************************************************)
EXTENDS Integers, Sequences, FiniteSets, TLC

\* ------------------------------------------------------------------ bounds
\* Sockets ever accepted.
MaxConns == 3
\* Chat messages accepted under Spec; message events stop once it is reached.
MaxMsgs == 1
\* Send calls that throw, over a whole run.
MaxFails == 1
\* Sockets that get a close or error event under Spec.
MaxEnded == 2
\* Chat messages accepted under SpecStore (past the history limit).
MaxStoreMsgs == 202
MaxOrderMsgs == 3
MaxSends == 6

\* ------------------------------------------------- constants of the program
HistoryLimit == 200
TextLimit == 480
AliasLimit == 48
ColorLimit == 64

Sockets == 1..MaxConns

\* --------------------------------------------------------------- strings
WhiteSpace == {" ", "\t", "\n"}

Min(a, b) == IF a < b THEN a ELSE b

Max(a, b) == IF a > b THEN a ELSE b

\* String.prototype.slice(0, n)
Slice0(s, n) == SubSeq(s, 1, Min(n, Len(s)))

\* Array.prototype.slice(-n), n > 0
SliceLast(s, n) == SubSeq(s, Max(1, Len(s) - n + 1), Len(s))

\* The index of the first character of s at or after i that is no white space
\* (Len(s) + 1 when there is none).
RECURSIVE TrimStart(_, _)
TrimStart(s, i) ==
    IF i <= Len(s) /\ s[i] \in WhiteSpace THEN TrimStart(s, i + 1) ELSE i

\* The index of the last character of s at or before i that is no white space
\* (0 when there is none).
RECURSIVE TrimEnd(_, _)
TrimEnd(s, i) ==
    IF i >= 1 /\ s[i] \in WhiteSpace THEN TrimEnd(s, i - 1) ELSE i

\* String.prototype.trim()
Trim(s) == SubSeq(s, TrimStart(s, 1), TrimEnd(s, Len(s)))

Repeat(ch, n) == [i \in 1..n |-> ch]

Anonymous == <<"A", "n", "o", "n", "y", "m", "o", "u", "s">>

DefaultColor ==
    <<"b", "g", "-", "s", "l", "a", "t", "e", "-", "1", "0", "0", " ",
      "t", "e", "x", "t", "-", "s", "l", "a", "t", "e", "-", "9", "0", "0">>

\* x?.slice(0, n) ?? fallback: the fallback for an absent x only.
ClampOrNullish(x, n, fallback) ==
    IF x = <<>> THEN fallback
    ELSE Slice0(x[1], n)

\* x?.slice(0, n) || fallback, for an optional string x
ClampOr(x, n, fallback) ==
    IF x = <<>> THEN fallback
    ELSE IF Slice0(x[1], n) = <<>> THEN fallback
    ELSE Slice0(x[1], n)

\* ------------------------------------------------------------ inbound data
\* event.data of a message event.  isString: typeof event.data === "string";
\* json: "bad" (JSON.parse throws), "null" (parses to null), "object".
Data(isString, json, type, text, alias, color) ==
    [isString |-> isString, json |-> json, type |-> type,
     text |-> text, alias |-> alias, color |-> color]

Hi == <<" ", "h", "i", "\n">>

LongText == <<" ">> \o Repeat("a", TextLimit) \o <<"z", " ">>

Payloads ==
    { Data(FALSE, "bad", "", <<>>, <<>>, <<>>),
      Data(TRUE, "bad", "", <<>>, <<>>, <<>>),
      Data(TRUE, "null", "", <<>>, <<>>, <<>>),
      Data(TRUE, "object", "ping", << <<"h", "i">> >>, <<>>, <<>>),
      Data(TRUE, "object", "message", <<>>, <<>>, <<>>),
      Data(TRUE, "object", "message", << <<>> >>, <<>>, <<>>),
      Data(TRUE, "object", "message", << <<" ", "\t">> >>, <<>>, <<>>),
      Data(TRUE, "object", "message", << Hi >>, <<>>, << <<>> >>),
      Data(TRUE, "object", "message", << LongText >>,
           << Repeat("b", AliasLimit + 1) >>, << Repeat("c", ColorLimit + 1) >>) }

\* The payload SpecStore sends over and over.
StorePayload == Data(TRUE, "object", "message", << <<"h", "i">> >>, <<>>, <<>>)

\* The message payloads of SpecMessage: every text with every alias and color.
\* The texts trim to 1, 2, 480 and 481 characters; an alias or a color is
\* absent, empty, short, at its limit or one character past it.
Texts ==
    { <<"x">>, Hi, <<"\t">> \o Repeat("a", TextLimit), LongText }

Optionals(ch, limit) ==
    { <<>>, << <<>> >>, << <<ch, ch>> >>, << Repeat(ch, limit) >>, << Repeat(ch, limit + 1) >> }

MessagePayloads ==
    { Data(TRUE, "object", "message", <<text>>, alias, color) :
        text \in Texts,
        alias \in Optionals("b", AliasLimit),
        color \in Optionals("c", ColorLimit) }

\* ------------------------------------------------------------------- state
VARIABLES
    connections,    \* the Map, as its entries in insertion order
    history,        \* ChatMessage[]
    uuids,          \* how many UUIDs crypto.randomUUID() has handed out
    sock,           \* per server socket: "none", "open", "errored", "closed"
    connectionId,   \* per server socket: the connectionId its listeners close over
    outbox,         \* per server socket: every send call, in order, and whether it returned
    appended,       \* every ChatMessage ever appended to history, in order
    greeting,       \* per server socket: the registry and the store as its history send found them
    last            \* the handler that ran last: which, on which socket, and how it ended

vars == <<connections, history, uuids, sock, connectionId, outbox, appended, greeting, last>>

\* -------------------------------------------------------------- the Map
MapHas(m, key) == \E i \in 1..Len(m) : m[i].id = key

\* Map.prototype.set: replaces the value of a present key in place, else appends.
MapSet(m, key, value) ==
    IF MapHas(m, key)
    THEN [i \in 1..Len(m) |-> IF m[i].id = key THEN value ELSE m[i]]
    ELSE Append(m, value)

\* A delete that empties the Map: Map.prototype.clear.
MapDeleteAll(m, key) == <<>>

\* Map.prototype.delete
MapDelete(m, key) == SelectSeq(m, LAMBDA e : e.id # key)

MapSize(m) == Len(m)

\* A generator that hands out the same value every time.
RandomUUIDFixed(used) == 1

\* crypto.randomUUID(): a value never handed out before.
RandomUUID(used) == used + 1

\* ------------------------------------------------------------------ events
\* A history event that carries no message.
HistoryEventEmpty(messages) == [type |-> "history", messages |-> <<>>, count |-> 0]

HistoryEvent(messages) == [type |-> "history", messages |-> messages, count |-> 0]

MessageEvent(message) == [type |-> "message", messages |-> <<message>>, count |-> 0]

PresenceEvent(count) == [type |-> "presence", messages |-> <<>>, count |-> count]

\* socket.send(payload) on server socket s; threw: the call throws.
Send(box, s, payload, threw) ==
    [box EXCEPT ![s] = Append(@, [ev |-> payload, ok |-> ~threw])]

NoExclude == 0

\* A fan-out under one try/catch: the first send that throws ends the loop.
RECURSIVE BroadcastFromAborting(_, _, _, _, _, _)
BroadcastFromAborting(conns, i, data, exclude, fail, box) ==
    IF i > Len(conns) THEN box
    ELSE IF exclude # NoExclude /\ conns[i].id = exclude
         THEN BroadcastFromAborting(conns, i + 1, data, exclude, fail, box)
         ELSE IF conns[i].socket \in fail
              THEN Send(box, conns[i].socket, data, TRUE)
              ELSE BroadcastFromAborting(conns, i + 1, data, exclude, fail,
                                         Send(box, conns[i].socket, data, FALSE))

\* A broadcast loop without the test of options.exclude.
RECURSIVE BroadcastFromToAll(_, _, _, _, _, _)
BroadcastFromToAll(conns, i, data, exclude, fail, box) ==
    IF i > Len(conns) THEN box
    ELSE BroadcastFromToAll(conns, i + 1, data, exclude, fail,
                            Send(box, conns[i].socket, data, conns[i].socket \in fail))

\* A broadcast loop that passes over a connection one of whose sends has thrown.
RECURSIVE BroadcastFromSkippingFailed(_, _, _, _, _, _)
BroadcastFromSkippingFailed(conns, i, data, exclude, fail, box) ==
    IF i > Len(conns) THEN box
    ELSE IF \/ exclude # NoExclude /\ conns[i].id = exclude
            \/ \E k \in 1..Len(box[conns[i].socket]) : ~box[conns[i].socket][k].ok
         THEN BroadcastFromSkippingFailed(conns, i + 1, data, exclude, fail, box)
         ELSE BroadcastFromSkippingFailed(conns, i + 1, data, exclude, fail,
                            Send(box, conns[i].socket, data, conns[i].socket \in fail))

\* broadcast(data, options): the loop from entry i on.  fail: the sockets whose
\* send throws during this call.
RECURSIVE BroadcastFrom(_, _, _, _, _, _)
BroadcastFrom(conns, i, data, exclude, fail, box) ==
    IF i > Len(conns) THEN box
    ELSE IF exclude # NoExclude /\ conns[i].id = exclude
         THEN BroadcastFrom(conns, i + 1, data, exclude, fail, box)
         ELSE BroadcastFrom(conns, i + 1, data, exclude, fail,
                            Send(box, conns[i].socket, data, conns[i].socket \in fail))

broadcast(conns, data, exclude, fail, box) ==
    BroadcastFrom(conns, 1, data, exclude, fail, box)

\* A presence count that leaves the recipient out: connections.size - 1.
registerPresenceOthers(conns, fail, box) ==
    broadcast(conns, PresenceEvent(MapSize(conns) - 1), NoExclude, fail, box)

registerPresence(conns, fail, box) ==
    broadcast(conns, PresenceEvent(MapSize(conns)), NoExclude, fail, box)

\* A prune that keeps the oldest entries: slice(0, 200) for slice(-200).
pruneHistoryOldest(h) ==
    IF Len(h) > HistoryLimit THEN Slice0(h, HistoryLimit) ELSE h

pruneHistory(h) ==
    IF Len(h) > HistoryLimit THEN SliceLast(h, HistoryLimit) ELSE h

\* ------------------------------------------------------------- bookkeeping
SocketsOf(conns) == {conns[i].socket : i \in 1..Len(conns)}

RECURSIVE FailedSends(_)
FailedSends(n) ==
    IF n = 0 THEN 0
    ELSE Len(SelectSeq(outbox[n], LAMBDA e : ~e.ok)) + FailedSends(n - 1)

\* Sockets whose close or error event has been handled.
Ended == Cardinality({s \in Sockets : sock[s] \in {"errored", "closed"}})

Accepted == Cardinality({s \in Sockets : sock[s] # "none"})

\* How a handler run ended: GET with its response status; the message listener
\* "accepted" (it appended and broadcast), "dropped" (an early return) or "threw".
Ran(op, s, outcome) == [op |-> op, socket |-> s, outcome |-> outcome]

\* What the history send of a socket found: whether the registry conns held
\* the connection id already, and how many messages had been appended.
Greeting(conns, id, n) == [registered |-> MapHas(conns, id), after |-> n]

Init ==
    /\ connections = <<>>
    /\ history = <<>>
    /\ uuids = 0
    /\ sock = [s \in Sockets |-> "none"]
    /\ connectionId = [s \in Sockets |-> 0]
    /\ outbox = [s \in Sockets |-> <<>>]
    /\ appended = <<>>
    /\ greeting = [s \in Sockets |-> Greeting(<<>>, 0, 0)]
    /\ last = Ran("init", 0, "")

\* ---------------------------------------------------------------- handlers
\* A GET that announces presence before it sends the history.
GETAnnounceFirst(upgrade, historyThrows, fail) ==
    IF ~upgrade
    THEN /\ last' = Ran("GET", 0, "426")
         /\ UNCHANGED <<connections, history, uuids, sock, connectionId, greeting, outbox, appended>>
    ELSE LET server == Accepted + 1
             id == RandomUUID(uuids)
             conns == MapSet(connections, id, [id |-> id, socket |-> server])
             announced == registerPresence(conns, fail, outbox)
         IN /\ server \in Sockets
            /\ uuids' = uuids + 1
            /\ sock' = [sock EXCEPT ![server] = "open"]
            /\ connectionId' = [connectionId EXCEPT ![server] = id]
            /\ connections' = conns
            /\ outbox' = Send(announced, server, HistoryEvent(history), historyThrows)
            /\ greeting' = [greeting EXCEPT ![server] = Greeting(conns, id, Len(appended))]
            /\ last' = Ran("GET", server, "101")
            /\ UNCHANGED <<history, appended>>

\* A GET whose history send is not guarded: when it throws, the handler ends
\* there, after the registration and before the announcement.
GETHistoryFatal(upgrade, historyThrows, fail) ==
    IF ~upgrade
    THEN /\ last' = Ran("GET", 0, "426")
         /\ UNCHANGED <<connections, history, uuids, sock, connectionId, greeting, outbox, appended>>
    ELSE LET server == Accepted + 1
             id == RandomUUID(uuids)
             conns == MapSet(connections, id, [id |-> id, socket |-> server])
             greeted == Send(outbox, server, HistoryEvent(history), historyThrows)
         IN /\ server \in Sockets
            /\ uuids' = uuids + 1
            /\ sock' = [sock EXCEPT ![server] = IF historyThrows THEN "closed" ELSE "open"]
            /\ connectionId' = [connectionId EXCEPT ![server] = id]
            /\ connections' = conns
            /\ outbox' = IF historyThrows THEN greeted ELSE registerPresence(conns, fail, greeted)
            /\ greeting' = [greeting EXCEPT ![server] = Greeting(conns, id, Len(appended))]
            /\ last' = Ran("GET", server, IF historyThrows THEN "500" ELSE "101")
            /\ UNCHANGED <<history, appended>>

\* A GET that does not look at the upgrade header.
GETAnyRequest(upgrade, historyThrows, fail) ==
    LET server == Accepted + 1
        id == RandomUUID(uuids)
        conns == MapSet(connections, id, [id |-> id, socket |-> server])
        greeted == Send(outbox, server, HistoryEvent(history), historyThrows)
    IN /\ server \in Sockets
       /\ uuids' = uuids + 1
       /\ sock' = [sock EXCEPT ![server] = "open"]
       /\ connectionId' = [connectionId EXCEPT ![server] = id]
       /\ connections' = conns
       /\ outbox' = registerPresence(conns, fail, greeted)
       /\ greeting' = [greeting EXCEPT ![server] = Greeting(conns, id, Len(appended))]
       /\ last' = Ran("GET", server, "101")
       /\ UNCHANGED <<history, appended>>

\* GET(request).  upgrade: the request carries an upgrade header;
\* historyThrows: server.send of the history event throws; fail: the sockets
\* whose send throws in registerPresence.
GET(upgrade, historyThrows, fail) ==
    IF ~upgrade
    THEN /\ last' = Ran("GET", 0, "426")
         /\ UNCHANGED <<connections, history, uuids, sock, connectionId, greeting, outbox, appended>>
    ELSE LET server == Accepted + 1
             id == RandomUUID(uuids)
             conns == MapSet(connections, id, [id |-> id, socket |-> server])
             greeted == Send(outbox, server, HistoryEvent(history), historyThrows)
         IN /\ server \in Sockets
            /\ uuids' = uuids + 1
            /\ sock' = [sock EXCEPT ![server] = "open"]
            /\ connectionId' = [connectionId EXCEPT ![server] = id]
            /\ connections' = conns
            /\ outbox' = registerPresence(conns, fail, greeted)
            /\ greeting' = [greeting EXCEPT ![server] = Greeting(conns, id, Len(appended))]
            /\ last' = Ran("GET", server, "101")
            /\ UNCHANGED <<history, appended>>

\* The ChatMessage built from an accepted payload.
ChatMessage(id, data) ==
    [id |-> id,
     text |-> Slice0(Trim(data.text[1]), TextLimit),
     alias |-> ClampOr(data.alias, AliasLimit, Anonymous),
     color |-> ClampOr(data.color, ColorLimit, DefaultColor)]

\* A listener without the check of the trimmed text.
OutcomeUntrimmed(data) ==
    IF ~data.isString THEN "dropped"
    ELSE IF data.json = "bad" THEN "dropped"
    ELSE IF data.json = "null" THEN "threw"
    ELSE IF data.type # "message" \/ data.text = <<>> \/ data.text[1] = <<>> THEN "dropped"
    ELSE "accepted"

\* How the message listener ends on event.data, early return by early return.
Outcome(data) ==
    IF ~data.isString THEN "dropped"
    ELSE IF data.json = "bad" THEN "dropped"
    ELSE IF data.json = "null" THEN "threw"
    ELSE IF data.type # "message" \/ data.text = <<>> \/ data.text[1] = <<>> THEN "dropped"
    ELSE IF Trim(data.text[1]) = <<>> THEN "dropped"
    ELSE "accepted"

\* A listener that leaves the sender out of the broadcast.
OnMessageExcludingSender(s, data, fail) ==
    /\ sock[s] = "open"
    /\ last' = Ran("message", s, Outcome(data))
    /\ UNCHANGED <<connections, sock, connectionId, greeting>>
    /\ IF Outcome(data) = "accepted"
       THEN LET message == ChatMessage(RandomUUID(uuids), data)
                h == pruneHistory(Append(history, message))
            IN /\ uuids' = uuids + 1
               /\ history' = h
               /\ appended' = Append(appended, message)
               /\ outbox' = broadcast(connections, MessageEvent(message),
                                      connectionId[s], fail, outbox)
       ELSE UNCHANGED <<history, uuids, outbox, appended>>

\* A listener that announces presence after every accepted message.
OnMessageAnnouncing(s, data, fail) ==
    /\ sock[s] = "open"
    /\ last' = Ran("message", s, Outcome(data))
    /\ UNCHANGED <<connections, sock, connectionId, greeting>>
    /\ IF Outcome(data) = "accepted"
       THEN LET message == ChatMessage(RandomUUID(uuids), data)
                h == pruneHistory(Append(history, message))
                sent == broadcast(connections, MessageEvent(message), NoExclude, fail, outbox)
            IN /\ uuids' = uuids + 1
               /\ history' = h
               /\ appended' = Append(appended, message)
               /\ outbox' = registerPresence(connections, {}, sent)
       ELSE UNCHANGED <<history, uuids, outbox, appended>>

\* A listener that puts the new message in front of the history.
OnMessagePrepending(s, data, fail) ==
    /\ sock[s] = "open"
    /\ last' = Ran("message", s, Outcome(data))
    /\ UNCHANGED <<connections, sock, connectionId, greeting>>
    /\ IF Outcome(data) = "accepted"
       THEN LET message == ChatMessage(RandomUUID(uuids), data)
                h == pruneHistory(<<message>> \o history)
            IN /\ uuids' = uuids + 1
               /\ history' = h
               /\ appended' = Append(appended, message)
               /\ outbox' = broadcast(connections, MessageEvent(message), NoExclude, fail, outbox)
       ELSE UNCHANGED <<history, uuids, outbox, appended>>

\* The message listener of server socket s, run on event.data = data.  The
\* listener tests event.data and nothing else: not the state of the socket,
\* not the registry.
listener(s, data, fail) ==
    /\ last' = Ran("message", s, Outcome(data))
    /\ UNCHANGED <<connections, sock, connectionId, greeting>>
    /\ IF Outcome(data) = "accepted"
       THEN LET message == ChatMessage(RandomUUID(uuids), data)
                h == pruneHistory(Append(history, message))
            IN /\ uuids' = uuids + 1
               /\ history' = h
               /\ appended' = Append(appended, message)
               /\ outbox' = broadcast(connections, MessageEvent(message), NoExclude, fail, outbox)
       ELSE UNCHANGED <<history, uuids, outbox, appended>>

\* A message event of server socket s while the socket is open.
OnMessage(s, data, fail) ==
    /\ sock[s] = "open"
    /\ listener(s, data, fail)

\* A message event of server socket s after its error event and before its
\* close event: the listener is still attached, and cleanup has run.
OnLateMessage(s, data, fail) ==
    /\ sock[s] = "errored"
    /\ listener(s, data, fail)

\* A cleanup that announces presence before it deletes the connection.
cleanupAnnounceFirst(s, fail) ==
    /\ connections' = MapDelete(connections, connectionId[s])
    /\ outbox' = registerPresence(connections, fail, outbox)
    /\ UNCHANGED <<history, uuids, connectionId, greeting, appended>>

\* cleanup, the listener of both close and error.
cleanup(s, fail) ==
    LET conns == MapDelete(connections, connectionId[s])
    IN /\ connections' = conns
       /\ outbox' = registerPresence(conns, fail, outbox)
       /\ UNCHANGED <<history, uuids, connectionId, greeting, appended>>

\* The close event of server socket s: the last event a socket delivers.
OnClose(s, fail) ==
    /\ sock[s] \in {"open", "errored"}
    /\ sock' = [sock EXCEPT ![s] = "closed"]
    /\ last' = Ran("close", s, "")
    /\ cleanup(s, fail)

\* The error event of server socket s; a close event may still follow it.
OnError(s, fail) ==
    /\ sock[s] = "open"
    /\ sock' = [sock EXCEPT ![s] = "errored"]
    /\ last' = Ran("error", s, "")
    /\ cleanup(s, fail)

\* A call broadcast(data, { exclude }), or broadcast(data) when exclude is NoExclude.
Broadcast(data, exclude, fail) ==
    /\ outbox' = broadcast(connections, data, exclude, fail, outbox)
    /\ last' = Ran("broadcast", 0, "")
    /\ UNCHANGED <<connections, history, uuids, sock, connectionId, greeting, appended>>

\* ------------------------------------------------------------- the client
\* The message listener of the client (Home) on one server event: the next
\* value of its messages state.
ClientOnMessage(messages, payload) ==
    IF payload.type = "history" THEN payload.messages
    ELSE IF payload.type = "message" THEN messages \o payload.messages
    ELSE messages

\* The messages state of a client after the first n of the events it received;
\* useState starts it empty.
RECURSIVE ClientMessagesAfter(_, _)
ClientMessagesAfter(events, n) ==
    IF n = 0 THEN <<>>
    ELSE ClientOnMessage(ClientMessagesAfter(events, n - 1), events[n])

\* ----------------------------------------------------------- specifications
\* The sends of one handler run may throw only while the run stays within MaxFails.
Throwable(targets) ==
    {fail \in SUBSET targets : FailedSends(MaxConns) + Cardinality(fail) <= MaxFails}

Next ==
    \/ GET(FALSE, FALSE, {})
    \/ \E historyThrows \in BOOLEAN :
          \E fail \in Throwable(SocketsOf(connections) \cup {Accepted + 1}) :
             /\ historyThrows => FailedSends(MaxConns) + Cardinality(fail) < MaxFails
             /\ GET(TRUE, historyThrows, fail)
    \/ \E s \in Sockets, data \in Payloads :
          \E fail \in (IF Outcome(data) = "accepted"
                       THEN Throwable(SocketsOf(connections)) ELSE {{}}) :
             /\ Len(appended) < MaxMsgs
             /\ OnMessage(s, data, fail)
    \/ \E s \in Sockets :
          \E fail \in Throwable(SocketsOf(connections) \ {s}) :
             /\ sock[s] = "open" => Ended < MaxEnded
             /\ OnClose(s, fail)
    \/ \E s \in Sockets :
          \E fail \in Throwable(SocketsOf(connections) \ {s}) :
             /\ Ended < MaxEnded
             /\ OnError(s, fail)

Spec == Init /\ [][Next]_vars

\* One client that keeps sending the same valid message, no send failing:
\* the runs that fill the history past its limit.
NextStore ==
    \/ /\ Accepted = 0
       /\ GET(TRUE, FALSE, {})
    \/ /\ Len(appended) < MaxStoreMsgs
       /\ OnMessage(1, StorePayload, {})

SpecStore == Init /\ [][NextStore]_vars

\* Clients that connect and send a valid message of any text, alias and color,
\* no send failing.
NextMessage ==
    \/ GET(TRUE, FALSE, {})
    \/ \E s \in Sockets, data \in MessagePayloads :
          /\ Len(appended) < MaxMsgs
          /\ OnMessage(s, data, {})

SpecMessage == Init /\ [][NextMessage]_vars

\* Clients that come, send valid messages one after another and leave, while
\* sends may throw.
NextOrder ==
    \/ \E historyThrows \in BOOLEAN :
          \E fail \in Throwable(SocketsOf(connections) \cup {Accepted + 1}) :
             /\ historyThrows => FailedSends(MaxConns) + Cardinality(fail) < MaxFails
             /\ GET(TRUE, historyThrows, fail)
    \/ \E s \in Sockets :
          \E fail \in Throwable(SocketsOf(connections)) :
             /\ Len(appended) < MaxOrderMsgs
             /\ OnMessage(s, StorePayload, fail)
    \/ \E s \in Sockets :
          \E fail \in Throwable(SocketsOf(connections) \ {s}) :
             /\ Ended < MaxEnded
             /\ OnClose(s, fail)

SpecOrder == Init /\ [][NextOrder]_vars

\* Clients come, send a valid message and go, no send failing; a socket that
\* has fired its error event may still deliver a message before it closes.
NextLate ==
    \/ GET(TRUE, FALSE, {})
    \/ \E s \in Sockets :
          /\ Len(appended) < MaxOrderMsgs
          /\ OnMessage(s, StorePayload, {})
    \/ \E s \in Sockets : OnError(s, {})
    \/ \E s \in Sockets : OnClose(s, {})
    \/ \E s \in Sockets :
          /\ Len(appended) < MaxOrderMsgs
          /\ OnLateMessage(s, StorePayload, {})

SpecLate == Init /\ [][NextLate]_vars

\* The identifiers a call of broadcast may exclude: none, or any identifier
\* a connection can have.
Excludable == {NoExclude} \cup (1..MaxConns)

\* Clients come and leave, and broadcast is called with and without an
\* excluded identifier, registered or not, while sends may throw.
NextExclude ==
    \/ GET(TRUE, FALSE, {})
    \/ \E s \in Sockets : OnClose(s, {})
    \/ \E exclude \in Excludable :
          \E fail \in Throwable(SocketsOf(connections)) :
             /\ \A s \in Sockets : Len(outbox[s]) < MaxSends
             /\ Broadcast(PresenceEvent(MapSize(connections)), exclude, fail)

SpecExclude == Init /\ [][NextExclude]_vars

\* ------------------------------------------------- what the claims speak of
Registered == SocketsOf(connections)

\* The events server socket s has delivered: the sends that returned.
Received(s) ==
    LET sent == SelectSeq(outbox[s], LAMBDA e : e.ok)
    IN [i \in 1..Len(sent) |-> sent[i].ev]

\* No send on server socket s has thrown.
NoFailedSend(s) == \A i \in 1..Len(outbox[s]) : outbox[s][i].ok

\* The sends the step made on server socket s.
NewSends(s) == SubSeq(outbox'[s], Len(outbox[s]) + 1, Len(outbox'[s]))

\* A step only ever adds sends to a socket's record.
OnlyAdds(s) ==
    /\ Len(outbox'[s]) >= Len(outbox[s])
    /\ SubSeq(outbox'[s], 1, Len(outbox[s])) = outbox[s]

Events(sends) == [i \in 1..Len(sends) |-> sends[i].ev]

PresenceCounts(s) ==
    LET p == SelectSeq(Received(s), LAMBDA e : e.type = "presence")
    IN [i \in 1..Len(p) |-> p[i].count]

\* ---------------------------------------------------------------------- C1
\* C1: the history holds at most 200 messages, and they are exactly the most
\* recently appended min(n, 200) messages, unaltered and in append order.
C1_MostRecentInOrder ==
    LET n == Len(appended)
        k == Min(n, HistoryLimit)
    IN /\ Len(history) = k
       /\ k <= HistoryLimit
       /\ \A i \in 1..k : history[i] = appended[n - k + i]

\* More messages were appended than the history holds: the oldest were dropped.
C1_Trimmed ==
    /\ Len(appended) = HistoryLimit + 2
    /\ Len(history) = HistoryLimit
    /\ history[1] = appended[3]

\* ---------------------------------------------------------------------- C2
\* The step is an accepting GET, and server is the socket it created.
Connected(server) ==
    /\ last'.op = "GET"
    /\ last'.outcome = "101"
    /\ last'.socket = server

\* C2, as claimed: on every connect the new client receives the history event
\* (the store at connect time) first and the presence event (the registry size
\* after its registration) next.
C2_HistoryThenPresenceReceived ==
    [][\A s \in Sockets :
         Connected(s) =>
            /\ Len(Received(s)') >= 2
            /\ Received(s)'[1] = HistoryEvent(history)
            /\ Received(s)'[2] = PresenceEvent(MapSize(connections'))]_vars

\* C2, amended: on every connect the sends made on the new socket are the
\* history event (the store at connect time) and then the presence event (the
\* registry size after its registration), nothing before or between them; the
\* client receives each unless that send throws.
C2_HistoryThenPresenceSent ==
    [][\A s \in Sockets :
         Connected(s) =>
            /\ outbox[s] = <<>>
            /\ Events(outbox'[s]) =
                  <<HistoryEvent(history), PresenceEvent(MapSize(connections'))>>
            /\ MapSize(connections') = MapSize(connections) + 1
            /\ (NoFailedSend(s)' => Received(s)' = Events(outbox'[s]))]_vars

\* A client joined a room with a message in its history and a peer online,
\* and received both greetings.
C2_Joined ==
    /\ last.op = "GET"
    /\ last.outcome = "101"
    /\ last.socket = 2
    /\ Received(2) = <<HistoryEvent(history), PresenceEvent(2)>>
    /\ Len(history) = 1

\* ---------------------------------------------------------------------- C3
\* The step is the message listener of socket s run on event.data = data.
Handled(s, data) ==
    /\ last'.op = "message"
    /\ last'.socket = s
    /\ OnMessage(s, data, {r \in Sockets : \E i \in 1..Len(NewSends(r)) : ~NewSends(r)[i].ok})

\* The text the claim prescribes for an accepted payload.
TrimmedAndCut(data) == Slice0(Trim(data.text[1]), TextLimit)

\* The message the step appended.
Appended == appended'[Len(appended')]

\* C3, as claimed: a valid inbound message is appended to the store and every
\* registered connection, the sender included, receives a message event
\* carrying the trimmed input cut to 480 characters.
C3_EveryoneReceives ==
    [][\A s \in Sockets, data \in Payloads :
         (Handled(s, data) /\ last'.outcome = "accepted") =>
            /\ Len(appended') = Len(appended) + 1
            /\ history'[Len(history')] = Appended
            /\ Appended.text = TrimmedAndCut(data)
            /\ \A r \in Registered :
                  /\ Len(Received(r)') = Len(Received(r)) + 1
                  /\ Received(r)'[Len(Received(r)')] = MessageEvent(Appended)]_vars

\* C3, amended: a valid inbound message is appended to the store and one send
\* of the message event, carrying the trimmed input cut to 480 characters, is
\* made to every registered connection, the sender included, and to no other;
\* each of them receives it unless its send throws.
C3_EveryoneIsSent ==
    [][\A s \in Sockets, data \in Payloads :
         (Handled(s, data) /\ last'.outcome = "accepted") =>
            /\ Len(appended') = Len(appended) + 1
            /\ history'[Len(history')] = Appended
            /\ Appended.text = TrimmedAndCut(data)
            /\ Len(Appended.text) \in 1..TextLimit
            /\ s \in Registered
            /\ \A r \in Registered :
                  /\ OnlyAdds(r)
                  /\ Events(NewSends(r)) = <<MessageEvent(Appended)>>
                  /\ (NewSends(r)[1].ok =>
                        Received(r)' = Append(Received(r), MessageEvent(Appended)))
            /\ \A r \in Sockets \ Registered : outbox'[r] = outbox[r]]_vars

\* Three connections, and each has just received a message cut to 480 characters.
C3_Delivered ==
    /\ last.op = "message"
    /\ last.outcome = "accepted"
    /\ Registered = {1, 2, 3}
    /\ Len(history[1].text) = TextLimit
    /\ \A r \in Registered :
          Received(r)[Len(Received(r))] = MessageEvent(history[1])

\* ---------------------------------------------------------------------- C4
\* The step is the close or error listener of socket s.
Terminated(s) ==
    /\ last'.op \in {"close", "error"}
    /\ last'.socket = s

\* C4: a termination event for a connection that is already deregistered
\* changes no state and emits no presence event.
C4_SecondTerminationIsNoOp ==
    [][\A s \in Sockets :
         (Terminated(s) /\ s \notin Registered) =>
            UNCHANGED <<connections, history, outbox>>]_vars

\* ---------------------------------------------------------------------- C5
\* C5: when a registered connection closes or errors it leaves the registry,
\* and one presence event, counting the connections that remain, is sent to
\* each of them and to nobody else.
C5_LeaveThenAnnounce ==
    [][\A s \in Sockets :
         (Terminated(s) /\ s \in Registered) =>
            /\ Registered' = Registered \ {s}
            /\ \A r \in Registered' :
                  /\ OnlyAdds(r)
                  /\ Events(NewSends(r)) = <<PresenceEvent(Cardinality(Registered) - 1)>>
            /\ \A r \in Sockets \ Registered' : outbox'[r] = outbox[r]]_vars

\* One of three connections has left and the two that remain were told so.
C5_Left ==
    /\ last.op \in {"close", "error"}
    /\ Registered = {1, 3}
    /\ sock[2] \in {"closed", "errored"}
    /\ \A r \in Registered : Received(r)[Len(Received(r))] = PresenceEvent(2)
    /\ Received(2)[Len(Received(2))] = PresenceEvent(3)


\* ---------------------------------------------------------------------- C6
\* The payloads the claim calls malformed or invalid: non-string data,
\* unparsable JSON, a type other than message, no text, or a text that is
\* empty once trimmed.
Malformed(data) ==
    \/ ~data.isString
    \/ data.json # "object"
    \/ data.type # "message"
    \/ data.text = <<>>
    \/ \A i \in 1..Len(data.text[1]) : data.text[1][i] \in WhiteSpace

\* C6: a malformed or invalid payload is dropped: store, registry and every
\* socket's sends are unchanged, and the sender stays registered with its
\* socket open, so its next valid message is handled.
C6_MalformedIsDropped ==
    [][\A s \in Sockets, data \in Payloads :
         (Handled(s, data) /\ Malformed(data)) =>
            /\ UNCHANGED <<history, appended, connections, outbox, sock>>
            /\ last'.outcome # "accepted"
            /\ s \in Registered'
            /\ sock'[s] = "open"]_vars

\* A malformed payload of the second of two connections was dropped: the store
\* is empty still, and the greetings are all that was ever sent.
C6_Dropped ==
    /\ last.op = "message"
    /\ last.outcome = "dropped"
    /\ last.socket = 2
    /\ Registered = {1, 2}
    /\ history = <<>>
    /\ Len(outbox[1]) = 3
    /\ Len(outbox[2]) = 2

\* ---------------------------------------------------------------------- C7
\* The step's send number i on socket f threw, inside broadcast.
BroadcastSendThrew(f, i) ==
    /\ i \in 1..Len(NewSends(f))
    /\ ~NewSends(f)[i].ok
    /\ NewSends(f)[i].ev.type # "history"

\* The handler that called broadcast went on to its end.
CallerCompleted ==
    /\ last'.op = "GET" =>
          /\ last'.outcome = "101"
          /\ sock'[last'.socket] = "open"
          /\ last'.socket \in Registered'
    /\ last'.op = "message" =>
          /\ last'.outcome = "accepted"
          /\ history'[Len(history')] = Appended
    /\ last'.op \in {"close", "error"} => last'.socket \notin Registered'

\* C7: a send that throws inside broadcast neither stops the fan-out nor
\* reaches the caller: the same payload is still sent to every other
\* registered connection, before or after the failing one in iteration order,
\* each receives it unless its own send throws, and the caller completes.
C7_FailureIsIsolated ==
    [][\A f \in Sockets : \A i \in 1..2 :
         BroadcastSendThrew(f, i) =>
            /\ \A r \in Registered' \ {f} :
                  /\ NewSends(r) # <<>>
                  /\ NewSends(r)[Len(NewSends(r))].ev = NewSends(f)[i].ev
                  /\ (NewSends(r)[Len(NewSends(r))].ok =>
                        Received(r)'[Len(Received(r)')] = NewSends(f)[i].ev)
            /\ CallerCompleted]_vars

\* The send to the second of three connections threw; the first and the third
\* received the message.
C7_MiddleThrew ==
    /\ last.op = "message"
    /\ Registered = {1, 2, 3}
    /\ ~outbox[2][Len(outbox[2])].ok
    /\ outbox[2][Len(outbox[2])].ev = MessageEvent(history[1])
    /\ Received(1)[Len(Received(1))] = MessageEvent(history[1])
    /\ Received(3)[Len(Received(3))] = MessageEvent(history[1])

\* ---------------------------------------------------------------------- C8
\* C8: the registry holds exactly the accepted connections whose close or
\* error has not been handled, each once, under the id of its own.
C8_RegistryIsExact ==
    /\ Registered = {s \in Sockets : sock[s] = "open"}
    /\ \A i, j \in 1..Len(connections) :
          i # j => /\ connections[i].id # connections[j].id
                   /\ connections[i].socket # connections[j].socket
    /\ \A i \in 1..Len(connections) :
          connections[i].id = connectionId[connections[i].socket]
    /\ \A s, r \in Sockets :
          (s # r /\ sock[s] # "none" /\ sock[r] # "none") =>
             connectionId[s] # connectionId[r]

\* The first connection errored, the second closed, the third is the one left.
C8_Interleaved ==
    /\ sock = <<"errored", "closed", "open">>
    /\ Len(connections) = 1
    /\ connections[1] = [id |-> connectionId[3], socket |-> 3]

\* ---------------------------------------------------------------------- C9
\* The step sent a presence event to some socket.
PresenceEmitted ==
    \E s \in Sockets : \E i \in 1..Len(NewSends(s)) :
       NewSends(s)[i].ev.type = "presence"

\* C9: a presence event is emitted only by an accepting GET or by the close
\* or error listener; the message listener never emits one.
C9_PresenceOnlyOnMembership ==
    [][PresenceEmitted =>
         \/ last'.op = "GET" /\ last'.outcome = "101"
         \/ last'.op \in {"close", "error"}]_vars

\* A message was accepted with two connections registered; each has seen the
\* presence events of the two connects and no other.
C9_MessageWithoutPresence ==
    /\ last.op = "message"
    /\ last.outcome = "accepted"
    /\ Registered = {1, 2}
    /\ PresenceCounts(1) = <<1, 2>>
    /\ PresenceCounts(2) = <<2>>
    /\ Len(outbox[1]) = 4

\* --------------------------------------------------------------------- C10
\* C10: between handler runs, every registered connection none of whose sends
\* threw has last received a presence count equal to the registry size.
C10_LastCountIsSize ==
    \A s \in Registered :
       NoFailedSend(s) =>
          /\ PresenceCounts(s) # <<>>
          /\ PresenceCounts(s)[Len(PresenceCounts(s))] = MapSize(connections)

\* Three clients connected and each saw 3; the second left and the two that
\* remain saw 2.
C10_ThreeThenTwo ==
    /\ Registered = {1, 3}
    /\ sock[2] = "closed"
    /\ PresenceCounts(1) = <<1, 2, 3, 2>>
    /\ PresenceCounts(3) = <<3, 2>>
    /\ PresenceCounts(2) = <<2, 3>>

\* --------------------------------------------------------------------- C11
\* The step is a GET whose history send on the new socket s threw.
GreetingThrew(s) ==
    /\ last'.op = "GET"
    /\ last'.socket = s
    /\ outbox[s] = <<>>
    /\ outbox'[s] # <<>>
    /\ ~outbox'[s][1].ok

\* C11: when the history send to a newly accepted connection throws, the
\* connection is active all the same: the GET answers 101, the connection is
\* registered, the presence event that counts it is sent to every registered
\* connection, itself included, and a valid message that arrives on it later
\* is appended and broadcast like any other.
C11_ActiveWithoutHistory ==
    [][\A s \in Sockets :
         /\ GreetingThrew(s) =>
               /\ last'.outcome = "101"
               /\ sock'[s] = "open"
               /\ Registered' = Registered \cup {s}
               /\ s \notin Registered
               /\ \A r \in Registered' :
                     /\ NewSends(r) # <<>>
                     /\ NewSends(r)[Len(NewSends(r))].ev =
                           PresenceEvent(Cardinality(Registered'))
         /\ \A data \in Payloads :
               (/\ outbox[s] # <<>>
                /\ ~outbox[s][1].ok
                /\ Handled(s, data)
                /\ Outcome(data) = "accepted") =>
                   /\ appended' = Append(appended, ChatMessage(uuids + 1, data))
                   /\ history'[Len(history')] = Appended
                   /\ \A r \in Registered :
                         Events(NewSends(r)) = <<MessageEvent(Appended)>>]_vars

\* Socket 2 never got its history, yet it was counted in the presence event
\* and its message reached both connections.
C11_HeardWithoutHistory ==
    /\ last = Ran("message", 2, "accepted")
    /\ Registered = {1, 2}
    /\ ~outbox[2][1].ok
    /\ Received(2) = <<PresenceEvent(2), MessageEvent(history[1])>>
    /\ Received(1)[Len(Received(1))] = MessageEvent(history[1])

\* --------------------------------------------------------------------- C12
\* out is the first n characters of the string s, all of s when s is shorter.
FirstChars(out, s, n) ==
    /\ Len(out) = Min(Len(s), n)
    /\ \A i \in 1..Len(out) : out[i] = s[i]

\* The optional string x is present and not empty.
Supplied(x) == x # <<>> /\ x[1] # <<>>

\* C12: the message built from an accepted payload has as text the first 480
\* characters of the trimmed input, 1 to 480 characters long; as alias the
\* first 48 characters of the supplied alias, or "Anonymous" when the alias is
\* absent or empty; as color the first 64 characters of the supplied color, or
\* the fixed fallback when it is absent or empty; and the message stored in
\* the history and the message sent to every connection are that one value.
C12_MessageFields ==
    [][\A s \in Sockets, data \in MessagePayloads :
         (Handled(s, data) /\ Outcome(data) = "accepted") =>
            LET m == appended'[Len(appended')]
            IN /\ Len(appended') = Len(appended) + 1
               /\ FirstChars(m.text, Trim(data.text[1]), 480)
               /\ Len(m.text) \in 1..480
               /\ IF Supplied(data.alias)
                  THEN FirstChars(m.alias, data.alias[1], 48)
                  ELSE m.alias = <<"A", "n", "o", "n", "y", "m", "o", "u", "s">>
               /\ IF Supplied(data.color)
                  THEN FirstChars(m.color, data.color[1], 64)
                  ELSE m.color = DefaultColor
               /\ history'[Len(history')] = m
               /\ \A r \in Registered : Events(NewSends(r)) = <<MessageEvent(m)>>]_vars

\* A 481-character text was cut to 480, an empty alias replaced by
\* "Anonymous" and a 65-character color cut to 64; both clients got the message.
C12_CutAndDefaulted ==
    /\ last = Ran("message", 1, "accepted")
    /\ Registered = {1, 2}
    /\ history[1].text = Repeat("a", 480)
    /\ history[1].alias = Anonymous
    /\ history[1].color = Repeat("c", 64)
    /\ Received(2)[Len(Received(2))] = MessageEvent(history[1])
    /\ Received(1)[Len(Received(1))] = MessageEvent(history[1])

\* --------------------------------------------------------------------- C13
\* The messages of the message events socket s has delivered, in order.
MessagesReceived(s) ==
    LET evs == SelectSeq(Received(s), LAMBDA e : e.type = "message")
    IN [i \in 1..Len(evs) |-> evs[i].messages[1]]

\* Where message m stands in the sequence of messages ms.
Position(ms, m) == CHOOSE i \in 1..Len(ms) : ms[i] = m

\* C13: every connection receives its message events in the order in which
\* the messages were appended to the store: of two messages it has received,
\* the one received first was appended first and, while the store still holds
\* it, stands before the other in the store.
C13_ReceivedInAppendOrder ==
    \A s \in Sockets :
       LET ms == MessagesReceived(s)
       IN \A i, j \in 1..Len(ms) :
             i < j =>
                /\ \E k \in 1..Len(appended) : appended[k] = ms[i]
                /\ \E k \in 1..Len(appended) : appended[k] = ms[j]
                /\ Position(appended, ms[i]) < Position(appended, ms[j])
                /\ (\E k \in 1..Len(history) : history[k] = ms[i]) =>
                      /\ \E k \in 1..Len(history) : history[k] = ms[j]
                      /\ Position(history, ms[i]) < Position(history, ms[j])

\* Two connections received the same three messages, sent from different
\* sockets, in the order of the store.
C13_ThreeInOrder ==
    /\ Len(history) = 3
    /\ MessagesReceived(1) = history
    /\ MessagesReceived(2) = history
    /\ last = Ran("message", 2, "accepted")

\* --------------------------------------------------------------------- C14
\* C14: a request without an upgrade header is answered with status 426, and
\* it changes nothing: no socket is created, no connection registered, no
\* identifier drawn, nothing sent, the store as it was.
C14_NoUpgradeNoEffect ==
    [][GET(FALSE, FALSE, {}) =>
         /\ last'.op = "GET"
         /\ last'.outcome = "426"
         /\ UNCHANGED <<connections, history, uuids, sock, connectionId,
                        outbox, appended, greeting>>]_vars

\* A plain request was refused while two clients were connected and a message
\* was in the store.
C14_Refused ==
    /\ last = Ran("GET", 0, "426")
    /\ Registered = {1, 2}
    /\ Accepted = 2
    /\ Len(history) = 1

\* --------------------------------------------------------------------- C15
\* The sockets whose send threw in the step.
Threw == {r \in Sockets : \E i \in 1..Len(NewSends(r)) : ~NewSends(r)[i].ok}

\* C15: a broadcast that excludes an identifier makes one send of the event to
\* every registered connection but the one with that identifier, and none to
\* that one or to a socket that is not registered; a broadcast that excludes
\* nothing makes one send to every registered connection.
C15_AllButExcluded ==
    [][\A exclude \in Excludable :
         (/\ last'.op = "broadcast"
          /\ Broadcast(PresenceEvent(MapSize(connections)), exclude, Threw)) =>
            \A s \in Sockets :
               /\ OnlyAdds(s)
               /\ IF s \in Registered /\ (exclude = NoExclude \/ connectionId[s] # exclude)
                  THEN Events(NewSends(s)) = <<PresenceEvent(MapSize(connections))>>
                  ELSE NewSends(s) = <<>>]_vars

\* Of three registered connections, the first and the third were sent an
\* event that the second, excluded, was not.
C15_SecondLeftOut ==
    /\ last.op = "broadcast"
    /\ Registered = {1, 2, 3}
    /\ Len(outbox[1]) = 5
    /\ Len(outbox[2]) = 3
    /\ Len(outbox[3]) = 3

\* --------------------------------------------------------------------- C16
\* C16: on accept the history send is attempted first, the connection is
\* registered next and presence is announced last, so that no connection is in
\* the registry when its history send is attempted.
C16_GreetedBeforeRegistered ==
    \A s \in Sockets : sock[s] # "none" => ~greeting[s].registered

\* --------------------------------------------------------------------- C17
\* C17: a message that arrives on a connection after its close or error has
\* deregistered it appends nothing to the store and sends nothing.
C17_NothingAfterDeregistration ==
    [][\A s \in Sockets :
         (last'.op = "message" /\ last'.socket = s /\ s \notin Registered) =>
            UNCHANGED <<history, appended, outbox>>]_vars

\* --------------------------------------------------------------------- C18
\* C18: a send that throws inside broadcast changes nothing in the registry.
\* The connection whose send threw is registered after the step, and the step
\* changes the registry only by the connection of its own handler; as long as
\* the connection stays registered every later presence event counts it and
\* is sent to it, and every later message event is sent to it; and it leaves
\* the registry only in the close or error listener of its own socket.
C18_FailedStaysRegistered ==
    [][\A f \in Sockets :
         /\ (\E i \in 1..Len(NewSends(f)) : BroadcastSendThrew(f, i)) =>
               /\ f \in Registered'
               /\ Registered' \ {last'.socket} = Registered \ {last'.socket}
         /\ (~NoFailedSend(f) /\ f \in Registered /\ f \in Registered') =>
               /\ PresenceEmitted =>
                     /\ NewSends(f) # <<>>
                     /\ NewSends(f)[Len(NewSends(f))].ev =
                           PresenceEvent(Cardinality(Registered'))
               /\ (last'.op = "message" /\ last'.outcome = "accepted") =>
                     Events(NewSends(f)) = <<MessageEvent(Appended)>>
         /\ (~NoFailedSend(f) /\ f \in Registered /\ f \notin Registered') =>
               Terminated(f)]_vars

\* The presence send to socket 1 threw when socket 2 joined; socket 1 was
\* counted and reached when socket 3 joined.
C18_CountedAfterFailure ==
    /\ Registered = {1, 2, 3}
    /\ Len(outbox[1]) = 4
    /\ outbox[1][3] = [ev |-> PresenceEvent(2), ok |-> FALSE]
    /\ outbox[1][4] = [ev |-> PresenceEvent(3), ok |-> TRUE]

\* --------------------------------------------------------------------- C19
\* The messages state of the client of server socket s.
ClientMessages(s) == ClientMessagesAfter(Received(s), Len(Received(s)))

\* The store when n messages had been appended.
StoreAfter(n) == SliceLast(SubSeq(appended, 1, n), HistoryLimit)

\* C19: for a connection none of whose sends threw, the messages of its
\* history event followed by the messages of its message events are the store
\* at its connect time followed by every message appended since, up to now
\* while it is connected and up to some moment once it has left, each message
\* once and none missing.
C19_HistoryThenEveryMessageOnce ==
    \A s \in Sockets :
       (sock[s] # "none" /\ NoFailedSend(s)) =>
          LET n == greeting[s].after
              ms == ClientMessages(s)
          IN /\ \E k \in n..Len(appended) :
                   /\ sock[s] = "open" => k = Len(appended)
                   /\ ms = StoreAfter(n) \o SubSeq(appended, n + 1, k)
             /\ \A i, j \in 1..Len(ms) : i # j => ms[i].id # ms[j].id

\* Socket 2 joined a room with one message in its store and has since heard
\* two more: its client holds the three, in order.
C19_JoinedAfterOne ==
    /\ sock[2] = "open"
    /\ NoFailedSend(2)
    /\ greeting[2].after = 1
    /\ Len(appended) = 3
    /\ ClientMessages(2) = appended
    /\ Len(MessagesReceived(2)) = 2

\* --------------------------------------------------------------------- C20
\* The entries of the registry.
Entries(conns) == {conns[i] : i \in 1..Len(conns)}

\* C20: a GET, a close and an error leave the store as it was; a message
\* leaves the registry as it was; and the close or error of a connection takes
\* the entry of that connection out of the registry and no other.
C20_OwnPartOnly ==
    [][/\ last'.op \in {"GET", "close", "error"} => UNCHANGED <<history, appended>>
       /\ last'.op = "message" => UNCHANGED connections
       /\ \A s \in Sockets :
             Terminated(s) =>
                /\ Entries(connections') =
                      Entries(connections) \ {[id |-> connectionId[s], socket |-> s]}
                /\ Len(connections') = Cardinality(Entries(connections'))]_vars

\* Socket 2 closed with a message in the store: the store kept it and the
\* sockets 1 and 3 stayed registered.
C20_OthersStayed ==
    /\ last = Ran("close", 2, "")
    /\ Entries(connections) = {[id |-> connectionId[1], socket |-> 1],
                               [id |-> connectionId[3], socket |-> 3]}
    /\ Len(history) = 1

=============================================================================
